---- MODULE Spec2Model ----
(***************************************************************************)
(* cano-ts: pipelines of step functions.                                   *)
(*                                                                         *)
(* Two generations of the pipeline classes live in the repository:         *)
(*   packages/core/src/index.ts  Pipe / PipeSync with catch(), PipeSync    *)
(*                               keeping a tagged {success,...} state;     *)
(*   packages/core/src/pipe.ts   Pipe / PipeSync with a configuration and  *)
(*                               the PipeError wrapper (error.ts).         *)
(* Both are modelled.  A driver (the caller of the library) creates        *)
(* pipelines, chains operations on the instances it holds and asks for     *)
(* results; the instances live in `pipes`, in order of allocation.         *)
(***************************************************************************)
EXTENDS Integers, Sequences, FiniteSets, TLC

VARIABLES
  pipes,    \* the pipeline instances allocated so far (index = identity)
  origin,   \* per instance: the chaining call that produced it (driver's record)
  thrown,   \* per instance: what the latest user function invoked on its path threw
  calls,    \* spy log: every invocation of a user function, in order
  obs,      \* what the latest call made by the driver returned or threw
  nextId,   \* identity of the next error object the library allocates
  console,  \* the console.debug calls made so far, in order
  heap      \* the arrays allocated so far: contents by reference

vars == <<pipes, origin, thrown, calls, obs, nextId, console, heap>>

(***************************************************************************)
(* Bounds of the exploration.                                              *)
(***************************************************************************)
MaxPipes == 4
\* pipe.ts has no catch(): its chains are explored one step deeper, so that
\* histories longer than three entries (the compressed trace) occur
MaxCfgPipes == MaxPipes + 1
\* console.debug calls a sync chain may make
MaxLines == 2
\* instances of a branching exploration
MaxTree == 3
\* instances in the runs checked for completion
MaxLive == 3

(***************************************************************************)
(* JavaScript values.  Every value is a record with a tag `t`.             *)
(***************************************************************************)
Undefined == [t |-> "undefined"]
Null == [t |-> "null"]
Num(n) == [t |-> "number", n |-> n]
Bool(b) == [t |-> "boolean", b |-> b]
Str(s) == [t |-> "string", s |-> s]
Obj(props) == [t |-> "object", props |-> props]
\* an array: the reference to its contents, heap[ref]
Arr(ref) == [t |-> "array", ref |-> ref]
\* One line of a stack / trace text.  The kinds: "text" (m verbatim), "header"
\* (`${m}:`), "chain" (the execution-chain title), "omitted" (`  ...(${i})`),
\* "entry" (`  ${i}. ${m}`), "error" (`  ${i}. ERROR in "${m}"`), "separator".
Line(k, i, m) == [k |-> k, i |-> i, m |-> m]
Text(m) == Line("text", 0, m)
\* an Error created by user code: identity, message, stack text (lines, <<>> when
\* it has none) and its enumerable own properties (a set of <<key, value>>)
ErrorObj(id, message, stack, own) ==
  [t |-> "Error", id |-> id, name |-> "Error", message |-> message,
   stack |-> stack, own |-> own]
\* a settled deferred handed back by a user function
Deferred(st, v) == [t |-> "promise", st |-> st, v |-> v]

NaN == [t |-> "NaN"]

None == [t |-> "NONE"]

\* typeof v === "object"
TypeofObject(v) == v.t \in {"object", "null", "Error", "PipeError", "promise", "array"}

\* the keys every Error has without defining them as enumerable own properties:
\* its own message and stack, and what Error.prototype and Object.prototype give
ErrorKeys ==
  {"message", "stack", "name", "constructor", "toString", "toLocaleString", "valueOf",
   "hasOwnProperty", "isPrototypeOf", "propertyIsEnumerable", "__proto__",
   "__defineGetter__", "__defineSetter__", "__lookupGetter__", "__lookupSetter__"}

\* key in v   (for the values of this model; v is an object)
In(key, v) ==
  CASE v.t = "object" -> key \in DOMAIN v.props
    [] v.t \in {"Error", "PipeError"} ->
         key \in ErrorKeys \/ \E kv \in v.own : kv[1] = key
    [] OTHER -> FALSE

\* v[key]
Get(v, key) ==
  IF v.t = "object" /\ key \in DOMAIN v.props THEN v.props[key] ELSE Undefined

\* e[key], e being an Error: an own property, or what Error.prototype gives
ErrGet(e, key) ==
  IF \E kv \in e.own : kv[1] = key THEN (CHOOSE kv \in e.own : kv[1] = key)[2]
  ELSE IF key = "name" THEN Str(e.name)
  ELSE IF key = "message" THEN Str(e.message)
  ELSE Undefined

\* !v is false
Truthy(v) ==
  CASE v.t \in {"undefined", "null", "NaN"} -> FALSE
    [] v.t = "boolean" -> v.b
    [] v.t = "number" -> v.n # 0
    [] v.t = "string" -> v.s # ""
    [] OTHER -> TRUE

(***************************************************************************)
(* User functions (the driver's inputs): a name (fn.name, "" when the      *)
(* function is anonymous) and a body.                                      *)
(***************************************************************************)
Ret(v) == [tag |-> "return", v |-> v]
Thr(e) == [tag |-> "throw", v |-> e]

Fn(name, body, k) == [name |-> name, body |-> body, k |-> k]

\* fn(...argv): the outcome of one invocation
Call(fn, argv) ==
  CASE fn.body = "add" ->
         IF argv[1].t = "number" /\ argv[2].t = "number"
         THEN Ret(Num(argv[1].n + argv[2].n)) ELSE Ret(NaN)
    [] fn.body = "const" -> Ret(fn.k)
    [] fn.body = "throw" -> Thr(fn.k)
    [] fn.body = "identity" -> Ret(argv[1])
    [] fn.body = "asyncConst" -> Ret(Deferred("fulfilled", fn.k))
    [] fn.body = "asyncThrow" -> Ret(Deferred("rejected", fn.k))
    \* (a, b) => a - b and (a, b) => b - a
    [] fn.body = "ascending" -> Ret(Num(argv[1].n - argv[2].n))
    [] fn.body = "descending" -> Ret(Num(argv[2].n - argv[1].n))
    \* E.reverse and E.sort return the array they were given
    [] fn.body \in {"reverse", "sort"} -> Ret(argv[1])

\* Array.prototype.reverse, on the contents
ArrayReverse(items) == [n \in 1..Len(items) |-> items[Len(items) + 1 - n]]

\* Array.prototype.sort(compareFn), on the contents: a stable sort that places a
\* after b when compareFn(a, b) > 0
RECURSIVE ArrayInsert(_, _, _)
ArrayInsert(x, sorted, compareFn) ==
  IF sorted = <<>> THEN <<x>>
  ELSE IF Call(compareFn, <<sorted[Len(sorted)], x>>).v.n > 0
  THEN Append(ArrayInsert(x, SubSeq(sorted, 1, Len(sorted) - 1), compareFn),
              sorted[Len(sorted)])
  ELSE Append(sorted, x)

RECURSIVE ArraySort(_, _)
ArraySort(items, compareFn) ==
  IF items = <<>> THEN <<>>
  ELSE ArrayInsert(items[Len(items)],
                   ArraySort(SubSeq(items, 1, Len(items) - 1), compareFn), compareFn)

\* E.reverse(list): list.reverse(), the heap after it
E_reverse(h, list) == [h EXCEPT ![list.ref] = ArrayReverse(@)]

\* E.sort(list, compareFn): list.sort(compareFn), the heap after it
E_sort(h, list, compareFn) == [h EXCEPT ![list.ref] = ArraySort(@, compareFn)]

\* the heap after fn(...argv)
Effect(fn, argv, h) ==
  CASE fn.body = "reverse" -> E_reverse(h, argv[1])
    [] fn.body = "sort" -> E_sort(h, argv[1], argv[2])
    [] OTHER -> h

\* fn.name || "anonymous"
\* mutant: fn.name without the fallback
FnName_raw(fn) == fn.name

FnName(fn) == IF fn.name # "" THEN fn.name ELSE "anonymous"

(***************************************************************************)
(* packages/core/src/index.ts : class PipeSync                             *)
(***************************************************************************)
\* { success: true, value }  /  { success: false, error }
Success(v) == Obj([success |-> Bool(TRUE), value |-> v])
Failure(e) == Obj([success |-> Bool(FALSE), error |-> e])

\* constructor(initialValue, fnHistory)
PipeSync_new(initialValue, fnHistory) ==
  [cls |-> "PipeSync",
   state |-> IF TypeofObject(initialValue) /\ initialValue # Null
                /\ In("success", initialValue)
             THEN initialValue
             ELSE Success(initialValue),
   fnHistory |-> fnHistory]

\* !this.state.success
StateFailed(self) == ~Truthy(Get(self.state, "success"))

\* mutant: next() without the `if (!this.state.success)` early return
PipeSync_next_noSkip(self, fn, args) ==
  LET newHistory == Append(self.fnHistory, FnName(fn))
      out == Call(fn, <<Get(self.state, "value")>> \o args)
  IN  IF out.tag = "return"
      THEN [this |-> self, ret |-> PipeSync_new(out.v, newHistory), call |-> out]
      ELSE [this |-> self, ret |-> PipeSync_new(Failure(out.v), newHistory), call |-> out]

\* mutant: the name pushed onto this.fnHistory instead of a copy of it
PipeSync_next_push(self, fn, args) ==
  LET newHistory == Append(self.fnHistory, FnName(fn))
      this == [self EXCEPT !.fnHistory = newHistory]
      out == Call(fn, <<Get(self.state, "value")>> \o args)
  IN  IF StateFailed(self)
      THEN [this |-> this, ret |-> PipeSync_new(self.state, newHistory), call |-> None]
      ELSE IF out.tag = "return"
      THEN [this |-> this, ret |-> PipeSync_new(out.v, newHistory), call |-> out]
      ELSE [this |-> this, ret |-> PipeSync_new(Failure(out.v), newHistory), call |-> out]

\* next(fn, ...args): the instance returned, the invocation of fn, if any, and
\* `this` as the call leaves it (no field of it is assigned)
PipeSync_next_dropHistory(self, fn, args) ==
  LET newHistory == Append(self.fnHistory, FnName(fn))
      out == Call(fn, <<Get(self.state, "value")>> \o args)
  IN  IF StateFailed(self)
      THEN [this |-> self, ret |-> PipeSync_new(self.state, self.fnHistory), call |-> None]
      ELSE IF out.tag = "return"
      THEN [this |-> self, ret |-> PipeSync_new(out.v, newHistory), call |-> out]
      ELSE [this |-> self, ret |-> PipeSync_new(Failure(out.v), newHistory), call |-> out]

PipeSync_next(self, fn, args) ==
  LET newHistory == Append(self.fnHistory, FnName(fn))
      out == Call(fn, <<Get(self.state, "value")>> \o args)
  IN  IF StateFailed(self)
      THEN [this |-> self, ret |-> PipeSync_new(self.state, newHistory), call |-> None]
      ELSE IF out.tag = "return"
      THEN [this |-> self, ret |-> PipeSync_new(out.v, newHistory), call |-> out]
      ELSE [this |-> self, ret |-> PipeSync_new(Failure(out.v), newHistory), call |-> out]

\* mutant: a throwing handler leaves the failure it was handling in place
PipeSync_catch_keepFirst(self, handler) ==
  LET out == Call(handler, <<Get(self.state, "error")>>)
  IN  IF StateFailed(self)
      THEN IF out.tag = "return"
           THEN [this |-> self, same |-> FALSE,
                 ret |-> PipeSync_new(out.v, self.fnHistory), call |-> out]
           ELSE [this |-> self, same |-> FALSE,
                 ret |-> PipeSync_new(self.state, self.fnHistory), call |-> out]
      ELSE [this |-> self, same |-> TRUE, ret |-> self, call |-> None]

\* catch(handler): `same` tells that `this` is returned
PipeSync_catch(self, handler) ==
  LET out == Call(handler, <<Get(self.state, "error")>>)
  IN  IF StateFailed(self)
      THEN IF out.tag = "return"
           THEN [this |-> self, same |-> FALSE,
                 ret |-> PipeSync_new(out.v, self.fnHistory), call |-> out]
           ELSE [this |-> self, same |-> FALSE,
                 ret |-> PipeSync_new(Failure(out.v), self.fnHistory), call |-> out]
      ELSE [this |-> self, same |-> TRUE, ret |-> self, call |-> None]

\* the first argument of console.debug: msg when it is truthy, else the default
\* label, `[${cls}] INITIAL ->` or `[${cls}] ${last step name} ->`
Label(kind, cls, text) == [kind |-> kind, cls |-> cls, text |-> text]
LogLabel(cls, fnHistory, msg) ==
  IF Len(fnHistory) = 0
  THEN IF Truthy(msg) THEN Label("message", "", msg.s) ELSE Label("initial", cls, "")
  ELSE IF Truthy(msg) THEN Label("message", "", msg.s)
  ELSE Label("last", cls, fnHistory[Len(fnHistory)])
\* console.debug(label, val)
Debug(label, val) == [label |-> label, val |-> val]

\* mutant: log() without the failure check
PipeSync_log_always(self, msg) ==
  [this |-> self, same |-> TRUE, ret |-> self,
   debug |-> <<Debug(LogLabel("PipeSync", self.fnHistory, msg),
                     Get(self.state, "value"))>>]

\* log(msg): returns this; `debug` is the console.debug calls it makes
PipeSync_log(self, msg) ==
  IF StateFailed(self) THEN [this |-> self, same |-> TRUE, ret |-> self, debug |-> <<>>]
  ELSE [this |-> self, same |-> TRUE, ret |-> self,
        debug |-> <<Debug(LogLabel("PipeSync", self.fnHistory, msg),
                          Get(self.state, "value"))>>]

\* mutant: result() without the throw
PipeSync_result_noThrow(self) == Ret(Get(self.state, "value"))

\* result(): returns the value or throws the error
PipeSync_result(self) ==
  IF StateFailed(self) THEN Thr(Get(self.state, "error"))
  ELSE Ret(Get(self.state, "value"))

(***************************************************************************)
(* packages/core/src/index.ts : class Pipe                                 *)
(*                                                                         *)
(* A promise is a record: st is "pending" (its reaction has not run yet),  *)
(* "waiting" (the reaction ran and returned a deferred that the promise    *)
(* follows; `v` is that deferred), "fulfilled" or "rejected".  A promise   *)
(* made by then()/catch() carries its reaction: the promise it is          *)
(* subscribed to (`src`, the instance holding it), the kind of reaction    *)
(* and the closure's fn and args.                                          *)
(***************************************************************************)
Promise(st, v, src, kind, fn, args) ==
  [st |-> st, v |-> v, src |-> src, kind |-> kind, fn |-> fn, args |-> args]

Settled(p) == p.st \in {"fulfilled", "rejected"}

\* Promise.resolve(x), x being a plain value or a settled deferred of user code
PromiseResolve(x) ==
  IF x.t = "promise" THEN Promise(x.st, x.v, 0, "resolve", Fn("", "none", Undefined), <<>>)
  ELSE Promise("fulfilled", x, 0, "resolve", Fn("", "none", Undefined), <<>>)

\* mutant: a deferred returned by the callback is taken for a plain value
Reacted_unresolved(pr, out) ==
  IF out.tag = "throw" THEN [pr EXCEPT !.st = "rejected", !.v = out.v]
  ELSE [pr EXCEPT !.st = "fulfilled", !.v = out.v]

\* the promise that then()/catch() hands back, settled with what the reaction produced:
\* a thrown error rejects it, a plain value fulfils it, a deferred is followed
Reacted(pr, out) ==
  IF out.tag = "throw" THEN [pr EXCEPT !.st = "rejected", !.v = out.v]
  ELSE IF out.v.t = "promise" THEN [pr EXCEPT !.st = "waiting", !.v = out.v]
  ELSE [pr EXCEPT !.st = "fulfilled", !.v = out.v]

\* mutant: the deferred the callback returned is never followed
Followed_stuck(pr) == pr

\* a promise that follows a settled deferred takes its outcome
Followed(pr) == [pr EXCEPT !.st = pr.v.st, !.v = pr.v.v]

\* constructor(initialValue, fnHistory)
Pipe_new(initialValue, fnHistory) ==
  [cls |-> "Pipe", value |-> initialValue, fnHistory |-> fnHistory]

\* mutant: next() on a settled pipeline runs its reaction before it returns
Pipe_next_eager(self, i, fn, args) ==
  LET pr == Promise("pending", Undefined, i, "next", fn, args)
  IN  Pipe_new(IF self.value.st = "fulfilled"
               THEN Reacted(pr, Call(fn, <<self.value.v>> \o args))
               ELSE IF self.value.st = "rejected"
               THEN [pr EXCEPT !.st = "rejected", !.v = self.value.v]
               ELSE pr,
               Append(self.fnHistory, FnName(fn)))

\* next(fn, ...args) on the instance at index i
Pipe_next(self, i, fn, args) ==
  Pipe_new(Promise("pending", Undefined, i, "next", fn, args),
           Append(self.fnHistory, FnName(fn)))

\* the reaction of next(): this.value.then((value) => Promise.resolve(fn(value, ...args)))
\* run once `src` is settled; gives the promise's new state and the invocation, if any
Pipe_next_then(pr, src) ==
  LET out == Call(pr.fn, <<src.v>> \o pr.args)
  IN  IF src.st = "rejected"
      THEN [value |-> [pr EXCEPT !.st = "rejected", !.v = src.v], call |-> None]
      ELSE [value |-> Reacted(pr, out), call |-> out]

\* mutant: catch() starts a fresh history
Pipe_catch_resetHistory(self, i, handler) ==
  Pipe_new(Promise("pending", Undefined, i, "catch", handler, <<>>), <<>>)

\* catch(handler) on the instance at index i
Pipe_catch(self, i, handler) ==
  Pipe_new(Promise("pending", Undefined, i, "catch", handler, <<>>), self.fnHistory)

\* mutant: a handler that throws is swallowed
Pipe_catch_catch_swallow(pr, src) ==
  LET out == Call(pr.fn, <<src.v>>)
  IN  IF src.st = "fulfilled"
      THEN [value |-> [pr EXCEPT !.st = "fulfilled", !.v = src.v], call |-> None]
      ELSE IF out.tag = "throw"
      THEN [value |-> [pr EXCEPT !.st = "fulfilled", !.v = Undefined], call |-> out]
      ELSE IF out.v.t = "promise"
      THEN [value |-> [pr EXCEPT !.st = "fulfilled", !.v = out.v.v], call |-> out]
      ELSE [value |-> Reacted(pr, out), call |-> out]

\* the reaction of catch(): this.value.catch((error) => Promise.resolve(handler(error)))
Pipe_catch_catch(pr, src) ==
  LET out == Call(pr.fn, <<src.v>>)
  IN  IF src.st = "fulfilled"
      THEN [value |-> [pr EXCEPT !.st = "fulfilled", !.v = src.v], call |-> None]
      ELSE [value |-> Reacted(pr, out), call |-> out]

\* log(msg) on the instance at index i
Pipe_log(self, i, msg) ==
  Pipe_new(Promise("pending", Undefined, i, "log", Fn("", "none", Undefined), <<msg>>),
           self.fnHistory)

\* mutant: the reaction of log() without its `return val`
Pipe_log_then_noReturn(pr, src, fnHistory) ==
  IF src.st = "rejected"
  THEN [value |-> [pr EXCEPT !.st = "rejected", !.v = src.v], call |-> None, debug |-> <<>>]
  ELSE [value |-> [pr EXCEPT !.st = "fulfilled", !.v = Undefined], call |-> None,
        debug |-> <<Debug(LogLabel("PipeAsync", fnHistory, pr.args[1]), src.v)>>]

\* the reaction of log(): this.value.then(async (val) => { console.debug(...); return val })
\* fnHistory is this.fnHistory of the instance log() was called on
Pipe_log_then(pr, src, fnHistory) ==
  IF src.st = "rejected"
  THEN [value |-> [pr EXCEPT !.st = "rejected", !.v = src.v], call |-> None, debug |-> <<>>]
  ELSE [value |-> [pr EXCEPT !.st = "fulfilled", !.v = src.v], call |-> None,
        debug |-> <<Debug(LogLabel("PipeAsync", fnHistory, pr.args[1]), src.v)>>]

\* mutant: result() fulfils with the reason of a rejected pipeline
Pipe_result_swallow(self) == Ret(self.value.v)

\* result(): the settled outcome the awaiting caller sees
Pipe_result(self) ==
  IF self.value.st = "rejected" THEN Thr(self.value.v) ELSE Ret(self.value.v)

(***************************************************************************)
(* error.ts : PipeError and formatEnhancedErrorMsg                         *)
(***************************************************************************)
\* history.slice(-3)
LastThree(history) == SubSeq(history, Len(history) - 2, Len(history))

\* mutant: the last three entries numbered 1..3 instead of their true positions
formatEnhancedErrorMsg_renumbered(history) ==
  LET history_length == Len(history)
      displayed_history ==
        IF history_length > 3
        THEN <<Line("omitted", history_length - 3, "")>> \o
             [i \in 1..3 |-> Line("entry", i, LastThree(history)[i])]
        ELSE [i \in 1..history_length |-> Line("entry", i, history[i])]
  IN  IF history_length = 0
      THEN <<Line("chain", 0, ""), Text("")>>
      ELSE <<Line("chain", 0, "")>> \o
           [displayed_history EXCEPT ![Len(displayed_history)] =
              Line("error", history_length, history[history_length])]

\* mutant: the failure marker appended even when the history is empty
formatEnhancedErrorMsg_markEmpty(history) ==
  LET history_length == Len(history)
      displayed_history ==
        IF history_length > 3
        THEN <<Line("omitted", history_length - 3, "")>> \o
             [i \in 1..3 |-> Line("entry", history_length - 3 + i, LastThree(history)[i])]
        ELSE [i \in 1..history_length |-> Line("entry", i, history[i])]
  IN  IF history_length = 0
      THEN <<Line("chain", 0, ""), Line("error", 0, "undefined")>>
      ELSE <<Line("chain", 0, "")>> \o
           [displayed_history EXCEPT ![Len(displayed_history)] =
              Line("error", history_length, history[history_length])]

\* formatEnhancedErrorMsg(history): the lines of the returned text
formatEnhancedErrorMsg(history) ==
  LET history_length == Len(history)
      displayed_history ==
        IF history_length > 3
        THEN <<Line("omitted", history_length - 3, "")>> \o
             [i \in 1..3 |-> Line("entry", history_length - 3 + i, LastThree(history)[i])]
        ELSE [i \in 1..history_length |-> Line("entry", i, history[i])]
  IN  IF history_length = 0
      \* displayed_history[-1] = ... adds no element: "Execution Chain:\n" + ""
      THEN <<Line("chain", 0, ""), Text("")>>
      ELSE <<Line("chain", 0, "")>> \o
           [displayed_history EXCEPT ![Len(displayed_history)] =
              Line("error", history_length, history[history_length])]

\* original_error instanceof Error
InstanceofError(v) == v.t \in {"Error", "PipeError"}

\* mutant: the constructor without the for...in copy
PipeError_new_noCopy(original_error, history, id) ==
  LET this == [t |-> "PipeError", id |-> id, name |-> "Error", message |-> "",
               stack |-> <<Text("Error"), Text("    at new PipeError")>>, own |-> {}]
  IN  IF InstanceofError(original_error)
      THEN [this EXCEPT
              !.stack = IF original_error.stack # <<>>
                        THEN <<Line("header", 0, this.name)>> \o
                             formatEnhancedErrorMsg(history) \o
                             <<Line("separator", 0, "")>> \o original_error.stack
                        ELSE @]
      ELSE this

\* new PipeError(original_error, history); id is the identity of the new object.
\* super("") leaves message "" and the inherited name "Error"; no field keeps
\* original_error itself.
PipeError_new(original_error, history, id) ==
  LET this == [t |-> "PipeError", id |-> id, name |-> "Error", message |-> "",
               stack |-> <<Text("Error"), Text("    at new PipeError")>>, own |-> {}]
  IN  IF InstanceofError(original_error)
      THEN [this EXCEPT
              !.stack = IF original_error.stack # <<>>
                        THEN <<Line("header", 0, this.name)>> \o
                             formatEnhancedErrorMsg(history) \o
                             <<Line("separator", 0, "")>> \o original_error.stack
                        ELSE @,
              !.own = {kv \in original_error.own : ~In(kv[1], this)}]
      ELSE this

(***************************************************************************)
(* packages/core/src/pipe.ts : setConfig, class PipeSync, class Pipe       *)
(* (the classes with a configuration; prefixed Cfg here)                   *)
(***************************************************************************)
\* x ?? d
Coalesce(x, d) == IF x.t \in {"undefined", "null"} THEN d ELSE x

\* mutant: wrapping off unless asked for
setConfig_defaultOff(config) ==
  IF ~Truthy(config) THEN Obj([usePipeError |-> Bool(FALSE)])
  ELSE Obj([usePipeError |-> Coalesce(Get(config, "usePipeError"), Bool(FALSE))])

\* setConfig(config)
setConfig(config) ==
  IF ~Truthy(config) THEN Obj([usePipeError |-> Bool(TRUE)])
  ELSE Obj([usePipeError |-> Coalesce(Get(config, "usePipeError"), Bool(TRUE))])

\* this.config.usePipeError
UsePipeError(self) == Truthy(Get(self.config, "usePipeError"))

\* PipeSync constructor(initialValue, config, fnHistory)
CfgPipeSync_new(initialValue, config, fnHistory) ==
  [cls |-> "CfgPipeSync", value |-> initialValue, config |-> config,
   fnHistory |-> fnHistory]

\* PipeSync.next(fn, ...args): returns an instance, or throws `err` (threw = TRUE)
CfgPipeSync_next(self, fn, args, id) ==
  LET newHistory == Append(self.fnHistory, FnName(fn))
      out == Call(fn, <<self.value>> \o args)
  IN  IF out.tag = "return"
      THEN [threw |-> FALSE, ret |-> CfgPipeSync_new(out.v, self.config, newHistory),
            err |-> None, call |-> out]
      ELSE [threw |-> TRUE, ret |-> None,
            err |-> IF UsePipeError(self) THEN PipeError_new(out.v, newHistory, id)
                    ELSE out.v,
            call |-> out]

\* PipeSync.result()
CfgPipeSync_result(self) == Ret(self.value)

\* Pipe constructor(initialValue, config, fnHistory)
CfgPipe_new(initialValue, config, fnHistory) ==
  [cls |-> "CfgPipe", value |-> initialValue, config |-> config, fnHistory |-> fnHistory]

\* mutant: next() hands the default configuration to the instance it makes
CfgPipe_next_defaultConfig(self, i, fn, args) ==
  CfgPipe_new(Promise("pending", Undefined, i, "next", fn, args), setConfig(Undefined),
              Append(self.fnHistory, FnName(fn)))

\* Pipe.next(fn, ...args) on the instance at index i
CfgPipe_next(self, i, fn, args) ==
  CfgPipe_new(Promise("pending", Undefined, i, "next", fn, args), self.config,
              Append(self.fnHistory, FnName(fn)))

\* the first reaction of next(): .then((value) => Promise.resolve(fn(value, ...args)))
CfgPipe_next_then(pr, src) ==
  LET out == Call(pr.fn, <<src.v>> \o pr.args)
  IN  IF src.st = "rejected"
      THEN [value |-> [pr EXCEPT !.st = "rejected", !.v = src.v], call |-> None]
      ELSE [value |-> Reacted(pr, out), call |-> out]

\* the second reaction of next(), on the promise of the first:
\* .catch((err) => { if (this.config.usePipeError) throw new PipeError(err, newHistory);
\*                   throw err; })
CfgPipe_next_catch(pr, config, newHistory, id) ==
  IF pr.st # "rejected" THEN pr
  ELSE IF Truthy(Get(config, "usePipeError"))
  THEN [pr EXCEPT !.v = PipeError_new(pr.v, newHistory, id)]
  ELSE pr

\* PipeSync.log(msg): returns this; `debug` is the console.debug call it makes
CfgPipeSync_log(self, msg) ==
  [ret |-> self,
   debug |-> <<Debug(LogLabel("PipeSync", self.fnHistory, msg), self.value)>>]

\* Pipe.log(msg) on the instance at index i
CfgPipe_log(self, i, msg) ==
  CfgPipe_new(Promise("pending", Undefined, i, "log", Fn("", "none", Undefined), <<msg>>),
              self.config, self.fnHistory)

\* the reaction of log(): this.value.then(async (val) => { console.debug(...); return val })
CfgPipe_log_then(pr, src, fnHistory) ==
  IF src.st = "rejected"
  THEN [value |-> [pr EXCEPT !.st = "rejected", !.v = src.v], call |-> None, debug |-> <<>>]
  ELSE [value |-> [pr EXCEPT !.st = "fulfilled", !.v = src.v], call |-> None,
        debug |-> <<Debug(LogLabel("PipeAsync", fnHistory, pr.args[1]), src.v)>>]

\* Pipe.result(): the settled outcome the awaiting caller sees
CfgPipe_result(self) ==
  IF self.value.st = "rejected" THEN Thr(self.value.v) ELSE Ret(self.value.v)

(***************************************************************************)
(* The driver's inputs.                                                    *)
(***************************************************************************)
E1 == ErrorObj(1, "Test error", <<Text("Error: Test error"), Text("    at throwError")>>, {})
E2 == ErrorObj(2, "Second error",
               <<Text("Error: Second error"), Text("    at throwErrorInCatch")>>, {})
FailObj == Obj([success |-> Bool(FALSE)])
OkObj == Obj([success |-> Bool(TRUE), value |-> Num(2)])

NoFn == Fn("", "none", Undefined)
add == Fn("add", "add", Undefined)
throwError == Fn("throwError", "throw", E1)
throwErrorInCatch == Fn("throwErrorInCatch", "throw", E2)
Const(u) == Fn("", "const", u)

InitValues == {Num(1), Undefined, Null, FailObj, OkObj}
\* <<fn, extra arguments>> of the next() calls the driver makes
SyncSteps == {<<add, <<Num(1)>> >>, <<throwError, <<>> >>,
              <<Const(FailObj), <<>> >>, <<Const(OkObj), <<>> >>}
SyncHandlers == {Const(Num(5)), Const(FailObj), throwErrorInCatch}

AsyncSteps == {<<add, <<Num(1)>> >>, <<throwError, <<>> >>,
               <<Fn("failingAsyncFn", "asyncThrow", E1), <<>> >>,
               <<Fn("", "asyncConst", Num(2)), <<>> >>}
AsyncHandlers == {Const(Num(5)), throwErrorInCatch, Fn("", "asyncConst", Num(5)),
                  Fn("", "asyncThrow", E2)}

\* pipe.ts: the config argument (undefined when omitted) and the steps
EmptyObj == Obj([key \in {} |-> Undefined])
ConfigArgs == {Undefined, EmptyObj, Obj([usePipeError |-> Undefined]),
               Obj([usePipeError |-> Bool(TRUE)]), Obj([usePipeError |-> Bool(FALSE)])}
CfgInitValues == {Num(1)}
CfgSyncSteps == {<<add, <<Num(1)>> >>, <<throwError, <<>> >>}
CfgAsyncSteps == {<<add, <<Num(1)>> >>, <<throwError, <<>> >>,
                  <<Fn("failingAsyncFn", "asyncThrow", E1), <<>> >>,
                  <<Fn("", "asyncConst", Num(2)), <<>> >>}

\* The driver is type-checked: T of the Pipe<T> it chains on is known statically.
TypeOfFn(fn) == IF fn.body = "add" THEN "number"
                ELSE IF fn.body \in {"reverse", "sort"} THEN "array"
                ELSE IF fn.body \in {"throw", "asyncThrow"} THEN "never" ELSE fn.k.t
Union(a, b) == IF a = "never" THEN b ELSE IF b = "never" THEN a
               ELSE IF a = b THEN a ELSE "mixed"
\* add is chained on a Pipe<number> only, E.reverse and E.sort on a Pipe<T[]> only
Applicable(fn, ty) ==
  /\ fn.body = "add" => ty = "number"
  /\ fn.body \in {"reverse", "sort"} => ty = "array"

(***************************************************************************)
(* Driver bookkeeping.                                                     *)
(***************************************************************************)
Origin(op, parent, fn, args, ty) ==
  [op |-> op, parent |-> parent, fn |-> fn, args |-> args, ty |-> ty]
Obs(op, on, ret, out) == [op |-> op, on |-> on, ret |-> ret, out |-> out]
\* one invocation: by the operation on instance `on` that made (or would have
\* made) instance `at`
Spy(at, on, fn, argv, out) == [at |-> at, on |-> on, fn |-> fn, argv |-> argv, out |-> out]

\* what the latest invocation on the path threw, after an operation on parent p
ThrownAfter(p, call) ==
  IF call = None THEN thrown[p]
  ELSE IF call.tag = "throw" THEN call.v ELSE None

Init ==
  /\ pipes = <<>>
  /\ origin = <<>>
  /\ thrown = <<>>
  /\ calls = <<>>
  /\ obs = Obs("none", 0, 0, None)
  /\ nextId = 1
  /\ console = <<>>
  /\ heap = <<>>

\* pipeSync(value)
pipeSync(v) ==
  /\ Len(pipes) < MaxPipes
  /\ pipes' = Append(pipes, PipeSync_new(v, <<>>))
  /\ origin' = Append(origin, Origin("create", 0, NoFn, <<v>>, v.t))
  /\ thrown' = Append(thrown, None)
  /\ obs' = Obs("create", 0, Len(pipes) + 1, None)
  /\ UNCHANGED <<calls, nextId, console, heap>>

\* pipes[i].next(fn, ...args)
SyncNext(i, fn, args) ==
  /\ pipes[i].cls = "PipeSync"
  /\ Len(pipes) < MaxPipes
  /\ Applicable(fn, origin[i].ty)
  /\ LET r == PipeSync_next(pipes[i], fn, args)
         k == Len(pipes) + 1
     IN  /\ pipes' = Append([pipes EXCEPT ![i] = r.this], r.ret)
         /\ origin' = Append(origin, Origin("next", i, fn, args, TypeOfFn(fn)))
         /\ thrown' = Append(thrown, ThrownAfter(i, r.call))
         /\ calls' = IF r.call = None THEN calls
                     ELSE Append(calls, Spy(k, i, fn, <<Get(pipes[i].state, "value")>> \o args,
                                            r.call))
         /\ obs' = Obs("next", i, k, None)
         /\ heap' = IF r.call = None THEN heap
                    ELSE Effect(fn, <<Get(pipes[i].state, "value")>> \o args, heap)
  /\ UNCHANGED <<nextId, console>>

\* pipes[i].catch(handler)
SyncCatch(i, handler) ==
  /\ pipes[i].cls = "PipeSync"
  /\ Len(pipes) < MaxPipes
  /\ LET r == PipeSync_catch(pipes[i], handler)
         k == IF r.same THEN i ELSE Len(pipes) + 1
     IN  /\ pipes' = IF r.same THEN [pipes EXCEPT ![i] = r.this]
                     ELSE Append([pipes EXCEPT ![i] = r.this], r.ret)
         /\ origin' = IF r.same THEN origin
                      ELSE Append(origin, Origin("catch", i, handler, <<>>,
                                           Union(origin[i].ty, TypeOfFn(handler))))
         /\ thrown' = IF r.same THEN thrown ELSE Append(thrown, ThrownAfter(i, r.call))
         /\ calls' = IF r.call = None THEN calls
                     ELSE Append(calls, Spy(k, i, handler, <<Get(pipes[i].state, "error")>>,
                                            r.call))
         /\ obs' = Obs("catch", i, k, None)
  /\ UNCHANGED <<nextId, console, heap>>

\* one console.debug call, with the driver's record of the log() call that made
\* it: the instance it was called on and the msg argument
ConsoleLine(by, msg, d) == [by |-> by, msg |-> msg, label |-> d.label, val |-> d.val]
Emitted(by, msg, debug) == [n \in DOMAIN debug |-> ConsoleLine(by, msg, debug[n])]

\* pipes[i].log(msg)
SyncLog(i, msg) ==
  /\ pipes[i].cls = "PipeSync"
  /\ Len(console) < MaxLines    \* a sync log() allocates nothing: cap the calls
  /\ LET r == PipeSync_log(pipes[i], msg)
         k == IF r.same THEN i ELSE Len(pipes) + 1
     IN  /\ pipes' = IF r.same THEN [pipes EXCEPT ![i] = r.this]
                     ELSE Append([pipes EXCEPT ![i] = r.this], r.ret)
         /\ console' = console \o Emitted(i, msg, r.debug)
         /\ obs' = Obs("log", i, k, None)
  /\ UNCHANGED <<origin, thrown, calls, nextId, heap>>

\* pipes[i].result()
SyncResult(i) ==
  /\ pipes[i].cls = "PipeSync"
  /\ obs' = Obs("result", i, 0, PipeSync_result(pipes[i]))
  /\ UNCHANGED <<pipes, origin, thrown, calls, nextId, console, heap>>

\* pipe(value)
pipe(v) ==
  /\ Len(pipes) < MaxPipes
  /\ pipes' = Append(pipes, Pipe_new(PromiseResolve(v), <<>>))
  /\ origin' = Append(origin, Origin("create", 0, NoFn, <<v>>, v.t))
  /\ thrown' = Append(thrown, None)
  /\ obs' = Obs("create", 0, Len(pipes) + 1, None)
  /\ UNCHANGED <<calls, nextId, console, heap>>

\* pipes[i].next(fn, ...args): only registers the reaction
AsyncNext(i, fn, args) ==
  /\ pipes[i].cls = "Pipe"
  /\ Len(pipes) < MaxPipes
  /\ Applicable(fn, origin[i].ty)
  /\ pipes' = Append(pipes, Pipe_next(pipes[i], i, fn, args))
  /\ origin' = Append(origin, Origin("next", i, fn, args, TypeOfFn(fn)))
  /\ thrown' = Append(thrown, None)
  /\ obs' = Obs("next", i, Len(pipes) + 1, None)
  /\ UNCHANGED <<calls, nextId, console, heap>>

\* pipes[i].catch(handler): only registers the reaction
AsyncCatch(i, handler) ==
  /\ pipes[i].cls = "Pipe"
  /\ Len(pipes) < MaxPipes
  /\ pipes' = Append(pipes, Pipe_catch(pipes[i], i, handler))
  /\ origin' = Append(origin, Origin("catch", i, handler, <<>>,
                                     Union(origin[i].ty, TypeOfFn(handler))))
  /\ thrown' = Append(thrown, None)
  /\ obs' = Obs("catch", i, Len(pipes) + 1, None)
  /\ UNCHANGED <<calls, nextId, console, heap>>

\* pipes[i].log(msg): only registers the reaction
AsyncLog(i, msg) ==
  /\ pipes[i].cls = "Pipe"
  /\ Len(pipes) < MaxPipes
  /\ pipes' = Append(pipes, Pipe_log(pipes[i], i, msg))
  /\ origin' = Append(origin, Origin("log", i, NoFn, <<msg>>, origin[i].ty))
  /\ thrown' = Append(thrown, None)
  /\ obs' = Obs("log", i, Len(pipes) + 1, None)
  /\ UNCHANGED <<calls, nextId, console, heap>>

\* what a user function's invocation comes to once the deferred it returned settles
Eventually(out) ==
  IF out = None \/ out.tag = "throw" \/ out.v.t # "promise" THEN out
  ELSE IF out.v.st = "rejected" THEN Thr(out.v.v) ELSE Ret(out.v.v)

\* microtask: the reaction of pipes[k].value runs, its source being settled
RunReaction(k) ==
  /\ pipes[k].cls = "Pipe"
  /\ pipes[k].value.st = "pending"
  /\ Settled(pipes[pipes[k].value.src].value)
  /\ LET pr == pipes[k].value
         src == pipes[pr.src].value
         r == IF pr.kind = "next" THEN Pipe_next_then(pr, src)
              ELSE IF pr.kind = "catch" THEN Pipe_catch_catch(pr, src)
              ELSE Pipe_log_then(pr, src, pipes[pr.src].fnHistory)
     IN  /\ pipes' = [pipes EXCEPT ![k].value = r.value]
         /\ thrown' = [thrown EXCEPT ![k] = ThrownAfter(pr.src, Eventually(r.call))]
         /\ calls' = IF r.call = None THEN calls
                     ELSE Append(calls, Spy(k, pr.src, pr.fn, <<src.v>> \o pr.args, r.call))
         /\ console' = IF pr.kind = "log"
                       THEN console \o Emitted(pr.src, pr.args[1], r.debug)
                       ELSE console
  /\ UNCHANGED <<origin, obs, nextId, heap>>

\* microtask: the deferred that pipes[k].value follows has settled
Follow(k) ==
  /\ pipes[k].cls = "Pipe"
  /\ pipes[k].value.st = "waiting"
  /\ pipes' = [pipes EXCEPT ![k].value = Followed(pipes[k].value)]
  /\ UNCHANGED <<origin, thrown, calls, obs, nextId, console, heap>>

\* await pipes[i].result()
AsyncResult(i) ==
  /\ pipes[i].cls = "Pipe"
  /\ Settled(pipes[i].value)
  /\ obs' = Obs("result", i, 0, Pipe_result(pipes[i]))
  /\ UNCHANGED <<pipes, origin, thrown, calls, nextId, console, heap>>

\* the instances the driver still chains on: the chains explored are fluent
\* (each chaining call is made on the instance the previous one returned);
\* result() may be asked of every instance
Held == {i \in DOMAIN pipes : i = Len(pipes)}

NextIndex ==
  \/ \E v \in InitValues : pipes = <<>> /\ pipeSync(v)
  \/ \E i \in Held, s \in SyncSteps : SyncNext(i, s[1], s[2])
  \/ \E i \in Held, h \in SyncHandlers : SyncCatch(i, h)
  \/ \E i \in DOMAIN pipes : SyncResult(i)
  \/ \E v \in InitValues : pipes = <<>> /\ pipe(v)
  \/ \E i \in Held, s \in AsyncSteps : AsyncNext(i, s[1], s[2])
  \/ \E i \in Held, h \in AsyncHandlers : AsyncCatch(i, h)
  \/ \E k \in DOMAIN pipes : RunReaction(k)
  \/ \E k \in DOMAIN pipes : Follow(k)
  \/ \E i \in DOMAIN pipes : AsyncResult(i)

SpecIndex == Init /\ [][NextIndex]_vars

(***************************************************************************)
(* index.ts under a driver that logs along a fluent chain.                 *)
(***************************************************************************)
\* the msg argument of log(): undefined when omitted
Messages == {Undefined, Str("Custom message:"), Str("")}
LogValues == {Num(1)}
LogSteps == {<<add, <<Num(1)>> >>, <<throwError, <<>> >>, <<Const(Num(5)), <<>> >>}
LogHandlers == {Const(Num(5))}

NextLog ==
  \/ \E v \in LogValues : pipes = <<>> /\ pipeSync(v)
  \/ \E i \in Held, s \in LogSteps : SyncNext(i, s[1], s[2])
  \/ \E i \in Held, h \in LogHandlers : SyncCatch(i, h)
  \/ \E i \in Held, m \in Messages : SyncLog(i, m)
  \/ \E i \in DOMAIN pipes : SyncResult(i)
  \/ \E v \in LogValues : pipes = <<>> /\ pipe(v)
  \/ \E i \in Held, s \in LogSteps : AsyncNext(i, s[1], s[2])
  \/ \E i \in Held, h \in LogHandlers : AsyncCatch(i, h)
  \/ \E i \in Held, m \in Messages : AsyncLog(i, m)
  \/ \E k \in DOMAIN pipes : RunReaction(k)
  \/ \E i \in DOMAIN pipes : AsyncResult(i)

SpecLog == Init /\ [][NextLog]_vars

(***************************************************************************)
(* index.ts under a driver that retains every instance and chains on any   *)
(* of them: branches.                                                      *)
(***************************************************************************)
TreeMessages == {Undefined, Str("Custom message:")}
TreeSteps == {<<add, <<Num(1)>> >>, <<throwError, <<>> >>}

NextTree ==
  \/ \E v \in LogValues : pipes = <<>> /\ pipeSync(v)
  \/ \E i \in DOMAIN pipes, s \in TreeSteps : Len(pipes) < MaxTree /\ SyncNext(i, s[1], s[2])
  \/ \E i \in DOMAIN pipes, h \in LogHandlers : Len(pipes) < MaxTree /\ SyncCatch(i, h)
  \/ \E i \in DOMAIN pipes, m \in TreeMessages : SyncLog(i, m)
  \/ \E i \in DOMAIN pipes : SyncResult(i)
  \/ \E v \in LogValues : pipes = <<>> /\ pipe(v)
  \/ \E i \in DOMAIN pipes, s \in TreeSteps : Len(pipes) < MaxTree /\ AsyncNext(i, s[1], s[2])
  \/ \E i \in DOMAIN pipes, h \in LogHandlers : Len(pipes) < MaxTree /\ AsyncCatch(i, h)
  \/ \E i \in DOMAIN pipes, m \in TreeMessages : Len(pipes) < MaxTree /\ AsyncLog(i, m)
  \/ \E k \in DOMAIN pipes : RunReaction(k)
  \/ \E i \in DOMAIN pipes : AsyncResult(i)

SpecTree == Init /\ [][NextTree]_vars

(***************************************************************************)
(* index.ts under a driver that runs the same steps through pipeSync and   *)
(* through pipe: the sync pipeline is instance 1, the async one instance 2 *)
(* made from the same value, and each is chained fluently.                 *)
(***************************************************************************)
PairValues == {Num(1), OkObj, FailObj}
\* step functions that neither throw nor return a deferred
PairSteps == {<<add, <<Num(1)>> >>, <<Const(Num(5)), <<>> >>, <<Const(OkObj), <<>> >>}

\* the instance of class cls made last
LatestOf(cls) ==
  {i \in DOMAIN pipes : pipes[i].cls = cls /\ \A j \in DOMAIN pipes : j > i => pipes[j].cls # cls}

NextPair ==
  \/ \E v \in PairValues : pipes = <<>> /\ pipeSync(v)
  \/ \E i \in LatestOf("PipeSync"), s \in PairSteps : SyncNext(i, s[1], s[2])
  \/ \E i \in DOMAIN pipes : SyncResult(i)
  \/ \E v \in PairValues : Len(pipes) = 1 /\ v = origin[1].args[1] /\ pipe(v)
  \/ \E i \in LatestOf("Pipe"), s \in PairSteps : AsyncNext(i, s[1], s[2])
  \/ \E k \in DOMAIN pipes : RunReaction(k)
  \/ \E i \in DOMAIN pipes : AsyncResult(i)

SpecPair == Init /\ [][NextPair]_vars

(***************************************************************************)
(* index.ts, the async pipeline with its job queue: a reaction whose       *)
(* source has settled is a queued microtask, and the event loop runs every *)
(* queued microtask; the driver may stop chaining at any point.            *)
(***************************************************************************)
NextLive ==
  \/ \E v \in LogValues : pipes = <<>> /\ pipe(v)
  \/ \E i \in Held, s \in AsyncSteps : Len(pipes) < MaxLive /\ AsyncNext(i, s[1], s[2])
  \/ \E i \in Held, h \in AsyncHandlers : Len(pipes) < MaxLive /\ AsyncCatch(i, h)
  \/ \E k \in DOMAIN pipes : RunReaction(k)
  \/ \E k \in DOMAIN pipes : Follow(k)
  \/ \E i \in DOMAIN pipes : AsyncResult(i)

\* the microtasks of instance k
Microtask(k) == k \in DOMAIN pipes /\ (RunReaction(k) \/ Follow(k))

SpecLive ==
  /\ Init /\ [][NextLive]_vars
  /\ \A k \in 1..MaxLive : WF_vars(Microtask(k))

(***************************************************************************)
(* index.ts with the array helpers as steps: the sync pipeline is made     *)
(* from an array literal and E.reverse and E.sort are chained on any       *)
(* instance the driver retains.                                            *)
(***************************************************************************)
reverse == Fn("reverse", "reverse", Undefined)
sort == Fn("sort", "sort", Undefined)
ascending == Fn("", "ascending", Undefined)
descending == Fn("", "descending", Undefined)

ArrayLiterals == {<<Num(3), Num(1), Num(2)>>, <<Num(1), Num(2)>>, <<Num(2), Num(2)>>}
ArraySteps == {<<reverse, <<>> >>, <<sort, <<ascending>> >>, <<sort, <<descending>> >>}

\* pipeSync([...items]): the literal allocates the array
pipeSync_array(items) ==
  /\ Len(pipes) < MaxTree
  /\ heap' = Append(heap, items)
  /\ pipes' = Append(pipes, PipeSync_new(Arr(Len(heap) + 1), <<>>))
  /\ origin' = Append(origin, Origin("create", 0, NoFn, <<Arr(Len(heap) + 1)>>, "array"))
  /\ thrown' = Append(thrown, None)
  /\ obs' = Obs("create", 0, Len(pipes) + 1, None)
  /\ UNCHANGED <<calls, nextId, console>>

NextArray ==
  \/ \E items \in ArrayLiterals : pipes = <<>> /\ pipeSync_array(items)
  \/ \E i \in DOMAIN pipes, s \in ArraySteps : Len(pipes) < MaxTree /\ SyncNext(i, s[1], s[2])
  \/ \E i \in DOMAIN pipes : SyncResult(i)

SpecArray == Init /\ [][NextArray]_vars

(***************************************************************************)
(* pipe.ts under the driver.                                               *)
(***************************************************************************)
\* pipeSync(value, config)
pipeSync_cfg(v, config) ==
  /\ Len(pipes) < MaxCfgPipes
  /\ pipes' = Append(pipes, CfgPipeSync_new(v, setConfig(config), <<>>))
  /\ origin' = Append(origin, Origin("create", 0, NoFn, <<v, config>>, v.t))
  /\ thrown' = Append(thrown, None)
  /\ obs' = Obs("create", 0, Len(pipes) + 1, None)
  /\ UNCHANGED <<calls, nextId, console, heap>>

\* pipes[i].next(fn, ...args): a new instance, or an exception for the driver
CfgSyncNext(i, fn, args) ==
  /\ pipes[i].cls = "CfgPipeSync"
  /\ Len(pipes) < MaxCfgPipes
  /\ Len(calls) < MaxCfgPipes    \* a throwing next() allocates nothing: cap the attempts
  /\ Applicable(fn, origin[i].ty)
  /\ LET r == CfgPipeSync_next(pipes[i], fn, args, nextId)
         k == IF r.threw THEN 0 ELSE Len(pipes) + 1
     IN  /\ pipes' = IF r.threw THEN pipes ELSE Append(pipes, r.ret)
         /\ origin' = IF r.threw THEN origin
                      ELSE Append(origin, Origin("next", i, fn, args, TypeOfFn(fn)))
         /\ thrown' = IF r.threw THEN thrown ELSE Append(thrown, None)
         /\ calls' = Append(calls, Spy(k, i, fn, <<pipes[i].value>> \o args, r.call))
         /\ obs' = Obs("next", i, k, IF r.threw THEN Thr(r.err) ELSE None)
         /\ nextId' = IF r.threw /\ r.err.t = "PipeError" THEN nextId + 1 ELSE nextId
  /\ UNCHANGED <<console, heap>>

\* pipes[i].result()
CfgSyncResult(i) ==
  /\ pipes[i].cls = "CfgPipeSync"
  /\ obs' = Obs("result", i, 0, CfgPipeSync_result(pipes[i]))
  /\ UNCHANGED <<pipes, origin, thrown, calls, nextId, console, heap>>

\* pipe(value, config)
pipe_cfg(v, config) ==
  /\ Len(pipes) < MaxCfgPipes
  /\ pipes' = Append(pipes, CfgPipe_new(PromiseResolve(v), setConfig(config), <<>>))
  /\ origin' = Append(origin, Origin("create", 0, NoFn, <<v, config>>, v.t))
  /\ thrown' = Append(thrown, None)
  /\ obs' = Obs("create", 0, Len(pipes) + 1, None)
  /\ UNCHANGED <<calls, nextId, console, heap>>

\* pipes[i].next(fn, ...args): only registers the reactions
CfgAsyncNext(i, fn, args) ==
  /\ pipes[i].cls = "CfgPipe"
  /\ Len(pipes) < MaxCfgPipes
  /\ Applicable(fn, origin[i].ty)
  /\ pipes' = Append(pipes, CfgPipe_next(pipes[i], i, fn, args))
  /\ origin' = Append(origin, Origin("next", i, fn, args, TypeOfFn(fn)))
  /\ thrown' = Append(thrown, None)
  /\ obs' = Obs("next", i, Len(pipes) + 1, None)
  /\ UNCHANGED <<calls, nextId, console, heap>>

\* microtasks: the reactions of pipes[k].value run, its source being settled
CfgRunReaction(k) ==
  /\ pipes[k].cls = "CfgPipe"
  /\ pipes[k].value.st = "pending"
  /\ Settled(pipes[pipes[k].value.src].value)
  /\ LET pr == pipes[k].value
         src == pipes[pr.src].value
         r == IF pr.kind = "log" THEN CfgPipe_log_then(pr, src, pipes[pr.src].fnHistory)
              ELSE CfgPipe_next_then(pr, src)
         value == IF pr.kind = "log" THEN r.value
                  ELSE CfgPipe_next_catch(r.value, pipes[k].config, pipes[k].fnHistory,
                                          nextId)
     IN  /\ pipes' = [pipes EXCEPT ![k].value = value]
         /\ console' = IF pr.kind = "log"
                       THEN console \o Emitted(pr.src, pr.args[1], r.debug)
                       ELSE console
         /\ thrown' = [thrown EXCEPT ![k] = ThrownAfter(pr.src, Eventually(r.call))]
         /\ calls' = IF r.call = None THEN calls
                     ELSE Append(calls, Spy(k, pr.src, pr.fn, <<src.v>> \o pr.args, r.call))
         /\ nextId' = IF value.v.t = "PipeError" /\ value.v.id = nextId
                      THEN nextId + 1 ELSE nextId
  /\ UNCHANGED <<origin, obs, heap>>

\* microtasks: the deferred that fn returned has settled; then the catch reaction
CfgFollow(k) ==
  /\ pipes[k].cls = "CfgPipe"
  /\ pipes[k].value.st = "waiting"
  /\ LET value == CfgPipe_next_catch(Followed(pipes[k].value), pipes[k].config,
                                     pipes[k].fnHistory, nextId)
     IN  /\ pipes' = [pipes EXCEPT ![k].value = value]
         /\ nextId' = IF value.v.t = "PipeError" /\ value.v.id = nextId
                      THEN nextId + 1 ELSE nextId
  /\ UNCHANGED <<origin, thrown, calls, obs, console, heap>>

\* await pipes[i].result()
CfgAsyncResult(i) ==
  /\ pipes[i].cls = "CfgPipe"
  /\ Settled(pipes[i].value)
  /\ obs' = Obs("result", i, 0, CfgPipe_result(pipes[i]))
  /\ UNCHANGED <<pipes, origin, thrown, calls, nextId, console, heap>>

\* pipes[i].log(msg)
CfgSyncLog(i, msg) ==
  /\ pipes[i].cls = "CfgPipeSync"
  /\ Len(console) < MaxLines    \* a sync log() allocates nothing: cap the calls
  /\ LET r == CfgPipeSync_log(pipes[i], msg)
     IN  /\ console' = console \o Emitted(i, msg, r.debug)
         /\ obs' = Obs("log", i, i, None)
  /\ UNCHANGED <<pipes, origin, thrown, calls, nextId, heap>>

\* pipes[i].log(msg): only registers the reaction
CfgAsyncLog(i, msg) ==
  /\ pipes[i].cls = "CfgPipe"
  /\ Len(pipes) < MaxCfgPipes
  /\ pipes' = Append(pipes, CfgPipe_log(pipes[i], i, msg))
  /\ origin' = Append(origin, Origin("log", i, NoFn, <<msg>>, origin[i].ty))
  /\ thrown' = Append(thrown, None)
  /\ obs' = Obs("log", i, Len(pipes) + 1, None)
  /\ UNCHANGED <<calls, nextId, console, heap>>

NextPipe ==
  \/ \E v \in CfgInitValues, c \in ConfigArgs : pipes = <<>> /\ pipeSync_cfg(v, c)
  \/ \E i \in Held, s \in CfgSyncSteps : CfgSyncNext(i, s[1], s[2])
  \/ \E i \in DOMAIN pipes : CfgSyncResult(i)
  \/ \E v \in CfgInitValues, c \in ConfigArgs : pipes = <<>> /\ pipe_cfg(v, c)
  \/ \E i \in Held, s \in CfgAsyncSteps : CfgAsyncNext(i, s[1], s[2])
  \/ \E k \in DOMAIN pipes : CfgRunReaction(k)
  \/ \E k \in DOMAIN pipes : CfgFollow(k)
  \/ \E i \in DOMAIN pipes : CfgAsyncResult(i)

SpecPipe == Init /\ [][NextPipe]_vars

\* pipe.ts with log() in the chains
CfgMessages == {Undefined}

NextConfig ==
  \/ \E v \in CfgInitValues, c \in ConfigArgs : pipes = <<>> /\ pipeSync_cfg(v, c)
  \/ \E i \in Held, s \in CfgSyncSteps : CfgSyncNext(i, s[1], s[2])
  \/ \E i \in Held, m \in CfgMessages : CfgSyncLog(i, m)
  \/ \E i \in DOMAIN pipes : CfgSyncResult(i)
  \/ \E v \in CfgInitValues, c \in ConfigArgs : pipes = <<>> /\ pipe_cfg(v, c)
  \/ \E i \in Held, s \in CfgAsyncSteps : CfgAsyncNext(i, s[1], s[2])
  \/ \E i \in Held, m \in CfgMessages : CfgAsyncLog(i, m)
  \/ \E k \in DOMAIN pipes : CfgRunReaction(k)
  \/ \E k \in DOMAIN pipes : CfgFollow(k)
  \/ \E i \in DOMAIN pipes : CfgAsyncResult(i)

SpecConfig == Init /\ [][NextConfig]_vars

(***************************************************************************)
(* error.ts called directly: new PipeError(original_error, history) and    *)
(* formatEnhancedErrorMsg(history) on arguments drawn by Init.             *)
(***************************************************************************)
MaxHistory == 5
\* the step names of error.spec.ts
Names == {"Step 1", "Final Step"}
Histories == UNION {[1..n -> Names] : n \in 0..MaxHistory}

\* new Error("Original error") whose stack was removed
NoStackErr == ErrorObj(3, "Original error", <<>>, {})
\* class CustomErr extends Error { key = "value" }
CustomErr ==
  ErrorObj(4, "Custom error", <<Text("Error: Custom error"), Text("    at test")>>,
           {<<"key", Str("value")>>})
\* class ValidationError extends Error { name = "ValidationError"; code = 42 }
NamedErr ==
  [ErrorObj(5, "Invalid", <<Text("Error: Invalid"), Text("    at validate")>>,
            {<<"name", Str("ValidationError")>>, <<"code", Num(42)>>})
     EXCEPT !.name = "ValidationError"]
\* what user code may throw: Errors, and values that are no Error
Originals == {E1, NoStackErr, CustomErr, NamedErr, Str("boom"), Obj([code |-> Num(42)])}

\* the driver's record of a direct call: the arguments and what came back
ObsCall(op, original_error, history, out) ==
  [op |-> op, on |-> 0, ret |-> 0, out |-> out,
   original_error |-> original_error, history |-> history]

InitError ==
  /\ pipes = <<>>
  /\ origin = <<>>
  /\ thrown = <<>>
  /\ calls = <<>>
  /\ \E e \in Originals, h \in Histories : obs = ObsCall("input", e, h, None)
  /\ nextId = 1
  /\ console = <<>>
  /\ heap = <<>>

\* new PipeError(original_error, history)
NewPipeError ==
  /\ obs.op = "input"
  /\ obs' = ObsCall("PipeError", obs.original_error, obs.history,
                    Ret(PipeError_new(obs.original_error, obs.history, nextId)))
  /\ nextId' = nextId + 1
  /\ UNCHANGED <<pipes, origin, thrown, calls, console, heap>>

\* formatEnhancedErrorMsg(history)
FormatHistory ==
  /\ obs.op = "input"
  /\ obs' = ObsCall("formatEnhancedErrorMsg", obs.original_error, obs.history,
                    Ret(formatEnhancedErrorMsg(obs.history)))
  /\ UNCHANGED <<pipes, origin, thrown, calls, nextId, console, heap>>

NextError ==
  \/ NewPipeError
  \/ FormatHistory

SpecError == InitError /\ [][NextError]_vars

(***************************************************************************)
(* What the driver can tell from its own records.                          *)
(***************************************************************************)
IsSync(i) == pipes[i].cls \in {"PipeSync", "CfgPipeSync"}
\* the instance's outcome is available (always, for a sync one)
Ready(i) == IsSync(i) \/ Settled(pipes[i].value)
\* the invocations made by the operation that produced instance k
CallsAt(k) == {j \in DOMAIN calls : calls[j].at = k}
\* the instances chained on instance i by next()
NextChildren(i) == {c \in DOMAIN pipes : origin[c].op = "next" /\ origin[c].parent = i}

(***************************************************************************)
(* C1  Short-circuit (index.ts, sync and async): once a step function (or  *)
(* a catch handler) has thrown or rejected and no catch handler has        *)
(* returned since, the function of a later next() is never invoked.        *)
(***************************************************************************)
ShortCircuit ==
  \A j \in DOMAIN calls :
    origin[calls[j].at].op = "next" => thrown[calls[j].on] = None

\* an async chain: a step fails, two more next() are chained and have settled
\* (rejected), their functions never called
ShortCircuitWitness ==
  \E k \in DOMAIN pipes :
    /\ pipes[k].cls = "Pipe" /\ pipes[k].value.st = "rejected"
    /\ origin[k].op = "next" /\ origin[origin[k].parent].op = "next"
    /\ thrown[origin[origin[k].parent].parent] # None
    /\ CallsAt(k) = {} /\ CallsAt(origin[k].parent) = {}

(***************************************************************************)
(* C2  Recovery resumption, as claimed: when a catch handler returns u,    *)
(* the pipeline is back in the success state holding u, and the function   *)
(* of every next() chained on it is invoked, once, on u.                   *)
(***************************************************************************)
RecoveryResumes ==
  \A k \in DOMAIN pipes :
    \A j \in CallsAt(k) :
      (origin[k].op = "catch" /\ Ready(k) /\ Eventually(calls[j].out).tag = "return") =>
        LET u == Eventually(calls[j].out).v IN
        /\ IsSync(k) => ~StateFailed(pipes[k]) /\ Get(pipes[k].state, "value") = u
        /\ ~IsSync(k) => pipes[k].value.st = "fulfilled" /\ pipes[k].value.v = u
        /\ \A c \in NextChildren(k) :
             Ready(c) => \E n \in CallsAt(c) :
                           calls[n].argv[1] = u /\ CallsAt(c) = {n}

(***************************************************************************)
(* C4  Sync result() (index.ts): in the success state it returns the       *)
(* stored value; in the failure state it throws the stored error and, when *)
(* the failure comes from a step or a handler that threw e, what it throws *)
(* is e itself.                                                            *)
(***************************************************************************)
SyncResultContract ==
  (obs.op = "result" /\ pipes[obs.on].cls = "PipeSync") =>
    LET self == pipes[obs.on] IN
    /\ ~StateFailed(self) => obs.out = Ret(Get(self.state, "value"))
    /\ StateFailed(self) => obs.out = Thr(Get(self.state, "error"))
    /\ thrown[obs.on] # None => obs.out = Thr(thrown[obs.on])

\* result() on a pipeline whose catch handler threw E2 while handling E1
SyncResultWitness ==
  /\ obs.op = "result" /\ pipes[obs.on].cls = "PipeSync"
  /\ origin[obs.on].op = "catch"
  /\ thrown[origin[obs.on].parent] = E1
  /\ obs.out = Thr(E2)

(***************************************************************************)
(* C7  Creation, as claimed: pipeSync(v) is in Success(v) with an empty    *)
(* history and result() on it returns v; pipe(v).result() resolves to v.   *)
(***************************************************************************)
CreateIsIdentity ==
  \A k \in DOMAIN pipes :
    origin[k].op = "create" =>
      LET v == origin[k].args[1] IN
      /\ pipes[k].fnHistory = <<>>
      /\ pipes[k].cls = "PipeSync" => pipes[k].state = Success(v)
      /\ (obs.op = "result" /\ obs.on = k) => obs.out = Ret(v)

(***************************************************************************)
(* C8  Sync next() in the success state, as claimed: fn is invoked exactly *)
(* once with (v, a1, ..., an), and when it returns u the new pipeline is   *)
(* in Success(u) and result() returns u.                                   *)
(***************************************************************************)
SyncNextApplies ==
  \A k \in DOMAIN pipes :
    LET i == origin[k].parent IN
    (origin[k].op = "next" /\ pipes[k].cls = "PipeSync" /\ ~StateFailed(pipes[i])) =>
      \E j \in CallsAt(k) :
        /\ CallsAt(k) = {j}
        /\ calls[j].fn = origin[k].fn
        /\ calls[j].argv = <<Get(pipes[i].state, "value")>> \o origin[k].args
        /\ calls[j].out.tag = "return" =>
             /\ pipes[k].state = Success(calls[j].out.v)
             /\ (obs.op = "result" /\ obs.on = k) => obs.out = Ret(calls[j].out.v)


(***************************************************************************)
(* pipe.ts: what the driver can tell from its own records.                 *)
(***************************************************************************)
Threw(out) == out # None /\ out.tag = "throw"

\* the instance the chain of i started from
RECURSIVE RootOf(_)
RootOf(i) == IF origin[i].op = "create" THEN i ELSE RootOf(origin[i].parent)

\* the config argument the chain of i was created with
ConfigArgOf(i) == origin[RootOf(i)].args[2]
\* the caller passed { usePipeError: false }
OptedOut(c) == c.t = "object" /\ Get(c, "usePipeError") = Bool(FALSE)

\* the names of the functions given to next() on the way to instance i
RECURSIVE PathNames(_)
PathNames(i) ==
  IF i = 0 \/ origin[i].op = "create" THEN <<>>
  ELSE IF origin[i].op = "next"
  THEN Append(PathNames(origin[i].parent), FnName(origin[i].fn))
  ELSE PathNames(origin[i].parent)

\* the instance on the path to k whose own function threw or rejected (0: none)
RECURSIVE FailedAt(_)
FailedAt(k) ==
  IF k = 0 THEN 0
  ELSE IF \E j \in CallsAt(k) : Eventually(calls[j].out).tag = "throw" THEN k
  ELSE FailedAt(origin[k].parent)

\* A failure surfaces to the caller: a sync next() throws, or an awaited async
\* result() rejects.
SurfacedSync == obs.op = "next" /\ pipes[obs.on].cls = "CfgPipeSync" /\ Threw(obs.out)
SurfacedAsync == obs.op = "result" /\ pipes[obs.on].cls = "CfgPipe" /\ Threw(obs.out)
\* what the failing step function itself threw, and the names of steps 1..K
RawError == IF SurfacedSync THEN calls[Len(calls)].out.v ELSE thrown[obs.on]
FailedNames ==
  IF SurfacedSync THEN Append(PathNames(obs.on), FnName(calls[Len(calls)].fn))
  ELSE PathNames(FailedAt(obs.on))

(***************************************************************************)
(* C3  As claimed: a step failure never escapes from a sync next(); an     *)
(* error reaches the caller of a sync pipeline only from result().         *)
(***************************************************************************)
SyncNextNeverThrows ==
  (obs.on \in DOMAIN pipes /\ IsSync(obs.on) /\ Threw(obs.out)) => obs.op = "result"

(***************************************************************************)
(* C5  As claimed (async, wrapping enabled): result() rejects with the     *)
(* very error object made at the failing step; later next() steps pass it  *)
(* through unchanged.                                                      *)
(***************************************************************************)
RejectionPassesThrough ==
  (SurfacedAsync /\ ~OptedOut(ConfigArgOf(obs.on))) =>
    obs.out.v = pipes[FailedAt(obs.on)].value.v

(***************************************************************************)
(* C6  As claimed (wrapping enabled, the thrown Error has a stack): the    *)
(* trace of the surfaced error lists steps 1..K, K being the first step to *)
(* fail, compressed to an omitted-count marker and the last three when     *)
(* K > 3, with step K marked as the failure, however many steps follow.    *)
(***************************************************************************)
ExpectedTrace(names) ==
  LET K == Len(names)
      first == IF K > 3 THEN K - 2 ELSE 1
  IN  (IF K > 3 THEN <<Line("omitted", K - 3, "")>> ELSE <<>>) \o
      [n \in 1..(K - first + 1) |->
         Line(IF first + n - 1 = K THEN "error" ELSE "entry", first + n - 1,
              names[first + n - 1])]

\* the lines of a wrapper's stack between the chain title and the separator
TraceOf(e) ==
  LET sep == CHOOSE n \in 1..Len(e.stack) :
               /\ e.stack[n].k = "separator"
               /\ \A m \in 1..(n - 1) : e.stack[m].k # "separator"
  IN  SubSeq(e.stack, 3, sep - 1)

HistoryMatchesFailingStep ==
  ((SurfacedSync \/ SurfacedAsync) /\ ~OptedOut(ConfigArgOf(obs.on))
     /\ InstanceofError(RawError) /\ RawError.stack # <<>>) =>
    /\ obs.out.v.t = "PipeError"
    /\ \E n \in 1..Len(obs.out.v.stack) : obs.out.v.stack[n].k = "separator"
    /\ TraceOf(obs.out.v) = ExpectedTrace(FailedNames)

(***************************************************************************)
(* C9  Wrapping is on by default and opt-out (pipe.ts, sync and async):    *)
(* with the config omitted or without the option the surfaced error is a   *)
(* PipeError; with usePipeError: false it is the very object the step      *)
(* threw.                                                                  *)
(***************************************************************************)
WrappingIsOptOut ==
  (SurfacedSync \/ SurfacedAsync) =>
    IF OptedOut(ConfigArgOf(obs.on)) THEN obs.out.v = RawError
    ELSE obs.out.v.t = "PipeError"

\* opted out, async: the raw error comes out of a result() two steps after the
\* one that failed
WrappingWitness ==
  /\ SurfacedAsync /\ OptedOut(ConfigArgOf(obs.on))
  /\ FailedAt(obs.on) # 0 /\ origin[origin[obs.on].parent].parent = FailedAt(obs.on)
  /\ obs.out.v = E1

(***************************************************************************)
(* C10  As claimed (wrapping enabled): when the step threw an Error with   *)
(* message m, the surfaced error carries message m.                        *)
(***************************************************************************)
MessageSurvives ==
  ((SurfacedSync \/ SurfacedAsync) /\ ~OptedOut(ConfigArgOf(obs.on))
     /\ InstanceofError(RawError)) =>
    obs.out.v.message = RawError.message

(***************************************************************************)
(* C11  As claimed: a PipeError built from an Error that has a stack       *)
(* reports the name "PipeError", and its stack is the header "PipeError:", *)
(* the formatted execution chain, the separator line and the original      *)
(* error's stack, in that order.                                           *)
(***************************************************************************)
PipeErrorNameAndStack ==
  (obs.op = "PipeError" /\ InstanceofError(obs.original_error)
     /\ obs.original_error.stack # <<>>) =>
    /\ obs.out.v.name = "PipeError"
    /\ obs.out.v.stack = <<Line("header", 0, "PipeError")>> \o
                         formatEnhancedErrorMsg(obs.history) \o
                         <<Line("separator", 0, "")>> \o obs.original_error.stack

(***************************************************************************)
(* C12  As claimed: every enumerable own property of the original Error,   *)
(* whatever its name (name and message included), is exposed by the        *)
(* wrapping error with the identical value.                                *)
(***************************************************************************)
CustomPropertiesRoundTrip ==
  (obs.op = "PipeError" /\ InstanceofError(obs.original_error)) =>
    \A kv \in obs.original_error.own : ErrGet(obs.out.v, kv[1]) = kv[2]

(***************************************************************************)
(* C12  What holds instead: every enumerable own property of the original  *)
(* Error whose key is not already a property of the wrapper, own or        *)
(* inherited (so not name, message, stack, nor a name found on the         *)
(* prototypes), is exposed by the wrapper with the identical value.        *)
(***************************************************************************)
CustomPropertiesCopied ==
  (obs.op = "PipeError" /\ InstanceofError(obs.original_error)) =>
    \A kv \in obs.original_error.own :
      kv[1] \notin ErrorKeys => ErrGet(obs.out.v, kv[1]) = kv[2]

\* the wrapper of a ValidationError: code is copied, name is the wrapper's own
CustomPropertiesWitness ==
  /\ obs.op = "PipeError" /\ obs.original_error = NamedErr
  /\ ErrGet(obs.out.v, "code") = Num(42)
  /\ ErrGet(obs.out.v, "name") = Str("Error")

(***************************************************************************)
(* C13  formatEnhancedErrorMsg on a history of n >= 1 names: for n <= 3    *)
(* every entry, numbered 1..n; for n > 3 the marker "...(n-3)" and only    *)
(* the last three entries, numbered n-2, n-1, n; in both cases the last    *)
(* line is entry n marked as the error and no other line is marked.        *)
(***************************************************************************)
FormatNumbersAndMarks ==
  (obs.op = "formatEnhancedErrorMsg" /\ Len(obs.history) >= 1) =>
    LET n == Len(obs.history)
        text == obs.out.v
        first == IF n > 3 THEN n - 2 ELSE 1
        \* the lines after the chain title that are not the omitted-count marker
        body == IF n > 3 THEN SubSeq(text, 3, Len(text)) ELSE SubSeq(text, 2, Len(text))
    IN  /\ text[1] = Line("chain", 0, "")
        /\ n > 3 => text[2] = Line("omitted", n - 3, "")
        /\ Len(body) = n - first + 1
        /\ \A m \in 1..Len(body) :
             /\ body[m].i = first + m - 1
             /\ body[m].m = obs.history[first + m - 1]
             /\ body[m].k = IF m = Len(body) THEN "error" ELSE "entry"

\* a history of five names: two omitted, entries 3 and 4, entry 5 marked
FormatLongWitness ==
  /\ obs.op = "formatEnhancedErrorMsg" /\ Len(obs.history) = 5
  /\ obs.out.v[2] = Line("omitted", 2, "")
  /\ obs.out.v[5] = Line("error", 5, obs.history[5])
  /\ obs.history[3] # obs.history[4]

(***************************************************************************)
(* C14  formatEnhancedErrorMsg on the empty history returns the chain      *)
(* title followed by a newline and nothing else: no numbered entry, no     *)
(* failure marker.                                                         *)
(***************************************************************************)
FormatEmptyHistory ==
  (obs.op = "formatEnhancedErrorMsg" /\ obs.history = <<>>) =>
    /\ obs.out.v = <<Line("chain", 0, ""), Text("")>>
    /\ \A n \in DOMAIN obs.out.v : obs.out.v[n].k \notin {"entry", "error", "omitted"}

FormatEmptyWitness ==
  /\ obs.op = "formatEnhancedErrorMsg" /\ obs.history = <<>>
  /\ Len(obs.out.v) = 2

(***************************************************************************)
(* index.ts: a chain replayed.                                             *)
(***************************************************************************)
\* what an instance holds for result(): the tagged state, or the settlement
Outcome(p) ==
  IF p.cls = "PipeSync" THEN p.state ELSE [st |-> p.value.st, v |-> p.value.v]

\* the instance that the calls on the path to k make by themselves, from the
\* value given at creation, its log() calls left out and its reactions run
RECURSIVE Replay(_)
Replay(k) ==
  LET o == origin[k]
      par == Replay(o.parent)
      made == IF o.op = "next" THEN Pipe_next(par, o.parent, o.fn, o.args)
              ELSE Pipe_catch(par, o.parent, o.fn)
      r == IF o.op = "next" THEN Pipe_next_then(made.value, par.value)
           ELSE Pipe_catch_catch(made.value, par.value)
  IN  IF o.op = "create"
      THEN IF IsSync(k) THEN PipeSync_new(o.args[1], <<>>)
           ELSE Pipe_new(PromiseResolve(o.args[1]), <<>>)
      ELSE IF IsSync(k)
      THEN IF o.op = "next" THEN PipeSync_next(par, o.fn, o.args).ret
           ELSE PipeSync_catch(par, o.fn).ret
      ELSE IF o.op = "log" THEN par
      ELSE [made EXCEPT !.value = IF r.value.st = "waiting" THEN Followed(r.value)
                                  ELSE r.value]

\* result() of an instance
ResultOf(p) == IF p.cls = "PipeSync" THEN PipeSync_result(p) ELSE Pipe_result(p)

(***************************************************************************)
(* C15  log() is transparent (index.ts, sync and async): what an instance  *)
(* holds, the history it records and what result() yields are those of the *)
(* same chain of calls without its log() calls, with or without a message; *)
(* a sync log() returns the instance it was called on.                     *)
(***************************************************************************)
LogIsTransparent ==
  /\ \A k \in DOMAIN pipes :
       Ready(k) => /\ Outcome(pipes[k]) = Outcome(Replay(k))
                   /\ pipes[k].fnHistory = PathNames(k)
  /\ (obs.op = "result" /\ Ready(obs.on)) => obs.out = ResultOf(Replay(obs.on))
  /\ (obs.op = "log" /\ IsSync(obs.on)) => obs.ret = obs.on

\* async: pipe(1).log().next(add, 1).log("Custom message:").result() gives 2, the
\* history being <<"add">>, both lines printed
LogTransparentWitness ==
  /\ obs.op = "result" /\ obs.on = 4 /\ obs.out = Ret(Num(2))
  /\ origin[4].op = "log" /\ origin[3].op = "next" /\ origin[2].op = "log"
  /\ origin[4].args = <<Str("Custom message:")>>
  /\ pipes[4].fnHistory = <<"add">>
  /\ Len(console) = 2

(***************************************************************************)
(* C16  As claimed: in the success state each log() call emits exactly one *)
(* line carrying the current value; its label is the supplied message      *)
(* whenever one is supplied (the empty string included), otherwise the     *)
(* INITIAL marker when the history is empty, otherwise the name of the     *)
(* most recently appended step.                                            *)
(***************************************************************************)
ClsLabel(i) == IF IsSync(i) THEN "PipeSync" ELSE "PipeAsync"
\* the value instance i holds in the success state
ValueOf(i) == IF IsSync(i) THEN Get(pipes[i].state, "value") ELSE pipes[i].value.v
LinesBy(i) == {n \in DOMAIN console : console[n].by = i}
\* the async log() calls made on instance i whose reaction has run on a value
LogsRunOn(i) ==
  {k \in DOMAIN pipes : /\ origin[k].op = "log" /\ origin[k].parent = i
                        /\ pipes[k].value.st = "fulfilled"}

LogLabelsAsClaimed ==
  /\ \A n \in DOMAIN console :
       LET c == console[n]
           h == pipes[c.by].fnHistory
       IN  /\ c.val = ValueOf(c.by)
           /\ c.label = IF c.msg # Undefined THEN Label("message", "", c.msg.s)
                        ELSE IF h = <<>> THEN Label("initial", ClsLabel(c.by), "")
                        ELSE Label("last", ClsLabel(c.by), h[Len(h)])
  /\ \A i \in DOMAIN pipes :
       ~IsSync(i) => Cardinality(LinesBy(i)) = Cardinality(LogsRunOn(i))
  /\ (obs.op = "log" /\ IsSync(obs.on) /\ ~StateFailed(pipes[obs.on])) =>
       console # <<>> /\ console[Len(console)].by = obs.on

(***************************************************************************)
(* C17  As claimed: catch() on a pipeline that has not failed never        *)
(* invokes the handler and leaves the value unchanged; the sync pipeline   *)
(* returns the same instance, the async one fulfils with the same value.   *)
(***************************************************************************)
CatchPassesThrough ==
  /\ (obs.op = "catch" /\ IsSync(obs.on) /\ thrown[obs.on] = None) => obs.ret = obs.on
  /\ \A k \in DOMAIN pipes :
       (origin[k].op = "catch" /\ Ready(k) /\ thrown[origin[k].parent] = None) =>
         /\ CallsAt(k) = {}
         /\ ~IsSync(k) => /\ pipes[k].value.st = "fulfilled"
                          /\ pipes[k].value.v = pipes[origin[k].parent].value.v

(***************************************************************************)
(* C18  Recovery failure (index.ts, sync and async): when a catch handler  *)
(* throws or rejects e2 while handling e1, the pipeline it returns is      *)
(* failed with e2; a catch chained on it receives e2, and result() on it   *)
(* surfaces e2.                                                            *)
(***************************************************************************)
CatchChildren(i) == {c \in DOMAIN pipes : origin[c].op = "catch" /\ origin[c].parent = i}

RecoveryFailureReplaces ==
  \A k \in DOMAIN pipes :
    \A j \in CallsAt(k) :
      (origin[k].op = "catch" /\ Ready(k) /\ Eventually(calls[j].out).tag = "throw") =>
        LET e2 == Eventually(calls[j].out).v IN
        /\ IsSync(k) => StateFailed(pipes[k]) /\ Get(pipes[k].state, "error") = e2
        /\ ~IsSync(k) => pipes[k].value.st = "rejected" /\ pipes[k].value.v = e2
        /\ \A c \in CatchChildren(k) :
             Ready(c) => \E n \in CallsAt(c) : calls[n].argv = <<e2>> /\ CallsAt(c) = {n}
        /\ (obs.op = "result" /\ obs.on = k) => obs.out = Thr(e2)

\* sync: a step throws E1, the first handler throws E2, a second handler is
\* called with E2
RecoveryFailureWitness ==
  \E c \in DOMAIN pipes :
    /\ IsSync(c) /\ origin[c].op = "catch" /\ origin[origin[c].parent].op = "catch"
    /\ thrown[origin[origin[c].parent].parent] = E1
    /\ \E n \in CallsAt(c) : calls[n].argv = <<E2>>

(***************************************************************************)
(* C19  Async catch (index.ts): on a rejected pipeline the handler is      *)
(* invoked exactly once, with the rejection reason; the new pipeline       *)
(* fulfils with the value the handler returns, or with the value of the    *)
(* deferred it returns, and rejects with the reason that deferred rejects  *)
(* with.                                                                   *)
(***************************************************************************)
AsyncCatchHandles ==
  \A k \in DOMAIN pipes :
    LET src == pipes[origin[k].parent].value IN
    (pipes[k].cls = "Pipe" /\ origin[k].op = "catch" /\ pipes[k].value.st # "pending"
       /\ src.st = "rejected") =>
      \E j \in CallsAt(k) :
        /\ CallsAt(k) = {j}
        /\ calls[j].fn = origin[k].fn
        /\ calls[j].argv = <<src.v>>
        /\ Settled(pipes[k].value) =>
             LET out == calls[j].out IN
             IF out.tag = "throw"
             THEN pipes[k].value.st = "rejected" /\ pipes[k].value.v = out.v
             ELSE IF out.v.t = "promise"
             THEN pipes[k].value.st = out.v.st /\ pipes[k].value.v = out.v.v
             ELSE pipes[k].value.st = "fulfilled" /\ pipes[k].value.v = out.v

\* the handler returned a deferred that rejected with E2 while handling E1
AsyncCatchWitness ==
  \E k \in DOMAIN pipes :
    /\ pipes[k].cls = "Pipe" /\ origin[k].op = "catch"
    /\ pipes[k].value.st = "rejected" /\ pipes[k].value.v = E2
    /\ \E j \in CallsAt(k) : calls[j].argv = <<E1>> /\ calls[j].out = Ret(Deferred("rejected", E2))

(***************************************************************************)
(* C20  Chaining never mutates an existing instance (index.ts, sync and    *)
(* async): no call changes the state or the history of an instance that    *)
(* exists (an async instance only settles, once), and every instance holds *)
(* what the calls on its own path make, whatever was chained on its        *)
(* ancestors besides: branches do not see each other's steps, history      *)
(* entries or failures.                                                    *)
(***************************************************************************)
Frozen(i) ==
  /\ pipes'[i].fnHistory = pipes[i].fnHistory
  /\ IsSync(i) => pipes'[i] = pipes[i]
  /\ (~IsSync(i) /\ Settled(pipes[i].value)) => pipes'[i] = pipes[i]

OwnPathOnly ==
  \A k \in DOMAIN pipes :
    /\ pipes[k].fnHistory = PathNames(k)
    /\ Ready(k) => Outcome(pipes[k]) = Outcome(Replay(k))

RECURSIVE OnPath(_, _)
OnPath(i, k) == k # 0 /\ (i = k \/ OnPath(i, origin[k].parent))

AsyncOrdering ==
  \A j \in DOMAIN calls :
    LET k == calls[j].at
        p == calls[j].on
    IN  (pipes[k].cls = "Pipe" /\ origin[k].op = "next") =>
          /\ pipes[p].value.st = "fulfilled"
          /\ calls[j].argv[1] = pipes[p].value.v
          /\ \A n \in CallsAt(p) :
               n < j /\ Eventually(calls[n].out) = Ret(calls[j].argv[1])
          /\ \A n \in DOMAIN calls : (OnPath(calls[n].at, p) /\ calls[n].at # k) => n < j

\* an unnamed async step returns a deferred fulfilling with 2; add, chained on it,
\* is invoked on 2 once that deferred has settled
AsyncOrderingWitness ==
  \E j \in DOMAIN calls :
    /\ pipes[calls[j].at].cls = "Pipe" /\ calls[j].fn = add /\ calls[j].argv[1] = Num(2)
    /\ \E n \in CallsAt(calls[j].on) : calls[n].out = Ret(Deferred("fulfilled", Num(2)))

(***************************************************************************)
(* C22  Sync/async equivalence, as claimed (index.ts): made from the same  *)
(* value and chained with the same non-failing step functions and extra    *)
(* arguments, the sync pipeline's result() returns what the async          *)
(* pipeline's result() resolves to.                                        *)
(***************************************************************************)
\* the value given at creation and the <<fn, args>> of the next() calls on the path
RECURSIVE PathSteps(_)
PathSteps(k) ==
  IF origin[k].op = "create" THEN <<origin[k].args[1]>>
  ELSE Append(PathSteps(origin[k].parent), <<origin[k].fn, origin[k].args>>)

SyncAsyncEquivalent ==
  \A s, a \in DOMAIN pipes :
    (pipes[s].cls = "PipeSync" /\ pipes[a].cls = "Pipe" /\ Settled(pipes[a].value)
       /\ PathSteps(s) = PathSteps(a)) =>
      PipeSync_result(pipes[s]) = Pipe_result(pipes[a])


(***************************************************************************)
(* C23  Sync next() on a failed pipeline (index.ts): the instance returned *)
(* is a new one in the same failure state (the same error object), its     *)
(* history is the receiver's history with the name of fn appended, and fn  *)
(* was not invoked.                                                        *)
(***************************************************************************)
FailedNextCarriesFailure ==
  \A k \in DOMAIN pipes :
    LET p == origin[k].parent
    IN  (pipes[k].cls = "PipeSync" /\ origin[k].op = "next" /\ StateFailed(pipes[p])) =>
          /\ k # p
          /\ pipes[k].state = pipes[p].state
          /\ pipes[k].fnHistory = Append(pipes[p].fnHistory, FnName(origin[k].fn))
          /\ CallsAt(k) = {}

\* a step threw an Error, and a further step was chained on the failed instance
FailedNextWitness ==
  \E k \in DOMAIN pipes :
    LET p == origin[k].parent
    IN  /\ pipes[k].cls = "PipeSync" /\ origin[k].op = "next"
        /\ origin[p].op = "next" /\ \E j \in CallsAt(p) : calls[j].out.tag = "throw"
        /\ Get(pipes[k].state, "error").t = "Error"
        /\ Len(pipes[k].fnHistory) = 2


(***************************************************************************)
(* C24  log() on a failed pipeline (index.ts): no line is emitted for it   *)
(* and the failure is untouched; the sync pipeline returns the instance it *)
(* was called on, still in the failure its path made, and the async one    *)
(* rejects with the reason of the pipeline it was called on.               *)
(***************************************************************************)
LogOnFailureIsSilent ==
  /\ \A n \in DOMAIN console :
       LET i == console[n].by
       IN  IF IsSync(i) THEN ~StateFailed(pipes[i]) ELSE pipes[i].value.st = "fulfilled"
  /\ (obs.op = "log" /\ IsSync(obs.on) /\ StateFailed(pipes[obs.on])) =>
       /\ obs.ret = obs.on
       /\ pipes[obs.on].state = Replay(obs.on).state
  /\ \A k \in DOMAIN pipes :
       LET src == pipes[origin[k].parent].value
       IN  (pipes[k].cls = "Pipe" /\ origin[k].op = "log" /\ Settled(pipes[k].value)
              /\ src.st = "rejected") =>
             pipes[k].value.st = "rejected" /\ pipes[k].value.v = src.v

\* async: a step threw an Error, log() was called on the rejected pipeline and
\* its reaction has run: nothing was printed and the reason is that Error
LogOnFailureWitness ==
  \E k \in DOMAIN pipes :
    /\ pipes[k].cls = "Pipe" /\ origin[k].op = "log"
    /\ pipes[k].value.st = "rejected" /\ pipes[k].value.v.t = "Error"
    /\ thrown[origin[k].parent] = pipes[k].value.v
    /\ console = <<>>


(***************************************************************************)
(* C25  The configuration is fixed at creation (pipe.ts, sync and async):  *)
(* every instance derived by next() and log() carries the configuration    *)
(* resolved when its origin was created, and a failure at any depth is a   *)
(* PipeError exactly when that configuration enables wrapping.             *)
(***************************************************************************)
ConfigFixedAtCreation ==
  /\ \A k \in DOMAIN pipes :
       /\ pipes[k].config = pipes[RootOf(k)].config
       /\ (pipes[k].cls = "CfgPipe" /\ pipes[k].value.st = "rejected") =>
            (pipes[k].value.v.t = "PipeError" <=> UsePipeError(pipes[RootOf(k)]))
  /\ (obs.op = "next" /\ obs.out # None) =>
       (obs.out.v.t = "PipeError" <=> UsePipeError(pipes[RootOf(obs.on)]))

\* async, wrapping disabled at creation: a step chained after a next() and a log()
\* throws, and the rejection reason is the raw Error
ConfigFixedWitness ==
  \E k \in DOMAIN pipes :
    /\ pipes[k].cls = "CfgPipe" /\ origin[k].op = "next"
    /\ origin[origin[k].parent].op = "log"
    /\ origin[origin[origin[k].parent].parent].op = "next"
    /\ ConfigArgOf(k) = Obj([usePipeError |-> Bool(FALSE)])
    /\ pipes[k].value.st = "rejected" /\ pipes[k].value.v.t = "Error"
    /\ \E j \in CallsAt(k) : calls[j].out.tag = "throw"


(***************************************************************************)
(* C26  As claimed: wrapping never loses the cause. The original can be    *)
(* recovered from the PipeError built from it, whether it is an Error with *)
(* a stack, an Error without one or a value that is no Error: no other     *)
(* thrown value yields the same PipeError; and when the original is an     *)
(* Error without a stack, the stack of the PipeError is the one it was     *)
(* constructed with, with no execution chain.                              *)
(***************************************************************************)
WrappingKeepsCause ==
  obs.op = "PipeError" =>
    /\ \A o \in Originals :
         PipeError_new(o, obs.history, obs.out.v.id) = obs.out.v => o = obs.original_error
    /\ (InstanceofError(obs.original_error) /\ obs.original_error.stack = <<>>) =>
         obs.out.v.stack = <<Text("Error"), Text("    at new PipeError")>>


(***************************************************************************)
(* C27  History survives recovery (index.ts, sync and async): the instance *)
(* catch() yields has the history of the instance it was called on,        *)
(* whether the handler ran, returned or threw; a next() chained on it      *)
(* records its function after all the steps made before the recovery.      *)
(***************************************************************************)
HistorySurvivesRecovery ==
  \A k \in DOMAIN pipes :
    LET p == origin[k].parent IN
    /\ origin[k].op = "catch" => pipes[k].fnHistory = pipes[p].fnHistory
    /\ (origin[k].op = "next" /\ origin[p].op = "catch") =>
         pipes[k].fnHistory =
           Append(pipes[origin[p].parent].fnHistory, FnName(origin[k].fn))

\* async: a step throws, the handler is invoked and returns, and the step chained
\* after the recovery has run: the history holds both steps
HistoryRecoveryWitness ==
  \E k \in DOMAIN pipes :
    LET p == origin[k].parent IN
    /\ pipes[k].cls = "Pipe" /\ origin[k].op = "next" /\ origin[p].op = "catch"
    /\ \E j \in CallsAt(p) : calls[j].out.tag = "return"
    /\ CallsAt(k) # {}
    /\ Len(pipes[k].fnHistory) = 2


(***************************************************************************)
(* C28  History is append-only bookkeeping of next() calls (index.ts, sync *)
(* and async): the history of every instance is as long as the number of   *)
(* next() calls on its path from creation (log() and catch() add nothing), *)
(* its i-th entry is the name of the i-th function chained, "anonymous"    *)
(* for a function without a name, and the history of an instance is a      *)
(* prefix of the history of every instance derived from it.                *)
(***************************************************************************)
\* the functions given to the next() calls on the path to k, in order
RECURSIVE NextFns(_)
NextFns(k) ==
  IF origin[k].op = "create" THEN <<>>
  ELSE IF origin[k].op = "next" THEN Append(NextFns(origin[k].parent), origin[k].fn)
  ELSE NextFns(origin[k].parent)

IsPrefix(s, t) == Len(s) <= Len(t) /\ \A n \in DOMAIN s : s[n] = t[n]

HistoryIsNextCalls ==
  \A k \in DOMAIN pipes :
    LET h == pipes[k].fnHistory
        fns == NextFns(k)
    IN  /\ Len(h) = Len(fns)
        /\ \A n \in DOMAIN h :
             h[n] = IF fns[n].name = "" THEN "anonymous" ELSE fns[n].name
        /\ \A a \in DOMAIN pipes : OnPath(a, k) => IsPrefix(pipes[a].fnHistory, h)

\* async: pipe(1).next(add, 1).log().next(() => 5): two entries, the second one
\* "anonymous", the log() in between adding none
HistoryWitness ==
  \E k \in DOMAIN pipes :
    /\ pipes[k].fnHistory = <<"add", "anonymous">>
    /\ origin[k].op = "next" /\ origin[origin[k].parent].op = "log"
    /\ pipes[origin[k].parent].fnHistory = <<"add">>


(***************************************************************************)
(* C29  Each step is executed at most once (index.ts, sync and async): the *)
(* function of a next() and the handler of a catch() are invoked at most   *)
(* once, whatever is chained on the instance returned and however often    *)
(* result() is asked; result() invokes no user function and changes no     *)
(* instance; what it yields is the value or the error the instance holds,  *)
(* so repeated calls on one instance yield the same.                       *)
(***************************************************************************)
\* what the instance holds: its value, or the error it failed with
Held_outcome(i) ==
  IF IsSync(i)
  THEN IF Get(pipes[i].state, "success") = Bool(TRUE)
       THEN Ret(Get(pipes[i].state, "value")) ELSE Thr(Get(pipes[i].state, "error"))
  ELSE IF pipes[i].value.st = "fulfilled"
       THEN Ret(pipes[i].value.v) ELSE Thr(pipes[i].value.v)

InvokedAtMostOnce ==
  /\ \A k \in DOMAIN pipes :
       /\ Cardinality(CallsAt(k)) <= 1
       /\ \A j \in CallsAt(k) : calls[j].fn = origin[k].fn
  /\ obs.op = "result" => obs.out = Held_outcome(obs.on)

ResultIsARead ==
  /\ (obs'.op = "result" /\ obs' # obs) => calls' = calls /\ pipes' = pipes
  /\ (obs.op = "result" /\ obs'.op = "result" /\ obs'.on = obs.on) => obs'.out = obs.out

ExecutedAtMostOnce == [][ResultIsARead]_vars /\ []InvokedAtMostOnce

\* async: pipe(1).next(add, 1), a further step chained on the instance returned and
\* run, result() asked of the first: add was invoked once, on 1
ExecutedOnceWitness ==
  /\ obs.op = "result" /\ obs.on = 2 /\ obs.out = Ret(Num(2))
  /\ pipes[2].cls = "Pipe" /\ origin[2].op = "next"
  /\ 3 \in DOMAIN pipes /\ origin[3].parent = 2 /\ origin[3].op = "next"
  /\ CallsAt(3) # {}
  /\ \E j \in CallsAt(2) : CallsAt(2) = {j} /\ calls[j].argv = <<Num(1), Num(1)>>


(***************************************************************************)
(* C30  Async completion (index.ts): the initial deferred being settled    *)
(* and every deferred a step or a handler returns settling, the deferred   *)
(* of every async pipeline (the one result() returns) eventually settles,  *)
(* with the outcome the calls on its path make: the last value, or the     *)
(* last error not recovered. It never stays pending.                       *)
(***************************************************************************)
AsyncCompletes ==
  \A i \in 1..MaxLive :
    (i \in DOMAIN pipes) ~>
      (/\ i \in DOMAIN pipes
       /\ Settled(pipes[i].value)
       /\ Outcome(pipes[i]) = Outcome(Replay(i)))

\* a step returned a deferred, the handler chained after it was passed over, and
\* the last pipeline has settled
AsyncCompletesWitness ==
  /\ Len(pipes) = 3 /\ origin[2].op = "next" /\ origin[3].op = "catch"
  /\ \E j \in CallsAt(2) : calls[j].out = Ret(Deferred("fulfilled", Num(2)))
  /\ pipes[3].value.st = "fulfilled" /\ pipes[3].value.v = Num(2)


(***************************************************************************)
(* C31  No user function runs inside an async chaining call (index.ts):    *)
(* next(), log() and catch() on an async pipeline return a new pending     *)
(* instance without invoking the step function or the handler, printing    *)
(* nothing and throwing nothing, also when the pipeline they are called on *)
(* has settled already (as one made from a plain value has); a step        *)
(* function that throws makes the pipeline of its next() reject with what  *)
(* it threw.                                                               *)
(***************************************************************************)
ChainingCallReturnsFirst ==
  (obs' # obs /\ obs'.op \in {"next", "log", "catch"} /\ pipes[obs'.on].cls = "Pipe") =>
    /\ calls' = calls /\ console' = console
    /\ obs'.out = None
    /\ obs'.ret = Len(pipes) + 1
    /\ pipes'[obs'.ret].value.st = "pending"
    /\ \A i \in DOMAIN pipes : pipes'[i] = pipes[i]

SyncThrowRejects ==
  \A k \in DOMAIN pipes :
    \A j \in CallsAt(k) :
      (pipes[k].cls = "Pipe" /\ origin[k].op = "next" /\ calls[j].out.tag = "throw") =>
        pipes[k].value.st = "rejected" /\ pipes[k].value.v = calls[j].out.v

NoUserCodeInChaining == [][ChainingCallReturnsFirst]_vars /\ []SyncThrowRejects

\* pipe(1).next(throwError).catch(handler): the step has thrown and its pipeline
\* is rejected with the Error; catch() has just returned on that settled
\* pipeline, its instance pending and the handler not invoked yet
NoUserCodeWitness ==
  /\ Len(pipes) = 3 /\ pipes[1].cls = "Pipe" /\ pipes[1].value.st = "fulfilled"
  /\ origin[2].op = "next" /\ pipes[2].value.st = "rejected"
  /\ \E j \in CallsAt(2) : calls[j].out = Thr(pipes[2].value.v)
  /\ obs.op = "catch" /\ obs.on = 2 /\ obs.ret = 3
  /\ pipes[3].value.st = "pending" /\ CallsAt(3) = {}


(***************************************************************************)
(* C32  As claimed: branch safety with the bundled array helpers           *)
(* (index.ts, E.reverse and E.sort as steps): chaining next(E.sort, cmp)   *)
(* or next(E.reverse) on a retained sync pipeline wrapping an array leaves *)
(* the array that its result() returns, and the one every other instance   *)
(* holds, with the contents it had.                                        *)
(***************************************************************************)
\* the contents of the array that result() of instance p returns, in heap h
Contents(p, h) == h[Get(p.state, "value").ref]

BranchSafeWithHelpers ==
  [][\A i \in DOMAIN pipes : Contents(pipes'[i], heap') = Contents(pipes[i], heap)]_vars

====
